---------------------------- MODULE Spec2Model ----------------------------
(***************************************************************************)
(* A model of uhd::time_spec_t (host/include/uhd/types/time_spec.hpp) and  *)
(* of uhd::dict (host/include/uhd/types/dict.hpp, dict.ipp).               *)
(*                                                                         *)
(* A time_spec_t is the pair (_full_secs : int64_t, _frac_secs : double).  *)
(* The double is modelled as a binary floating-point number of the same    *)
(* shape as IEEE-754 binary64 (round to nearest, ties to even, gradual     *)
(* underflow) but with MantBits significant bits instead of 53 and a       *)
(* smallest positive value of 2^-FracBits.  A double is represented by the *)
(* integer number of quanta 2^-FracBits it holds, so One = 2^FracBits      *)
(* stands for 1.0.  Whole seconds and tick counts stay far from the int64  *)
(* limits, so int64 arithmetic is plain integer arithmetic.                *)
(***************************************************************************)
EXTENDS Integers, Sequences, FiniteSets, TLC

\* ----------------------------------------------------------------- bounds
MantBits == 5       \* significant bits of the modelled double (53 in binary64)
FracBits == 14      \* the smallest positive double is 2^-FracBits
MaxOps   == 1       \* how many times one object is modified once constructed
MaxTicks == 4       \* tick counts range over -MaxTicks..MaxTicks
MaxLen   == 3       \* how many entries a dict holds at most

\* ------------------------------------------------- integer helper functions
RECURSIVE Pow2(_)
Pow2(n) == IF n <= 0 THEN 1 ELSE 2 * Pow2(n - 1)

Abs(x) == IF x < 0 THEN -x ELSE x

Sgn(x) == IF x < 0 THEN -1 ELSE IF x = 0 THEN 0 ELSE 1

RECURSIVE BitLen(_)
BitLen(n) == IF n <= 0 THEN 0 ELSE 1 + BitLen(n \div 2)

\* the largest power of two that divides both x and cap (cap a power of two)
RECURSIVE Pow2Part(_, _)
Pow2Part(x, cap) ==
    IF x = 0 THEN cap
    ELSE IF cap <= 1 \/ x % 2 # 0 THEN 1
    ELSE 2 * Pow2Part(x \div 2, cap \div 2)

\* ------------------------------------------------------ the modelled double
One  == Pow2(FracBits)          \* 1.0
Half == One \div 2              \* 0.5

\* n/d quanta (d > 0) rounded to the nearest double, ties to even
RoundRat(n, d) ==
    LET a  == Abs(n)
        q  == a \div d
        e  == IF q < Pow2(MantBits) THEN 0 ELSE BitLen(q) - MantBits
        D  == d * Pow2(e)
        qq == a \div D
        r  == a % D
        up == r > D - r \/ (r = D - r /\ qq % 2 = 1)
    IN  Sgn(n) * (IF up THEN qq + 1 ELSE qq) * Pow2(e)

\* double + double, double - double
FAdd(x, y) == RoundRat(x + y, 1)
FSub(x, y) == RoundRat(x - y, 1)

\* double * double
FMul(x, y) ==
    LET gx == Pow2Part(x, One)
        gy == Pow2Part(y, One \div gx)
    IN  RoundRat((x \div gx) * (y \div gy), (One \div gx) \div gy)

\* double / double, y # 0
FDiv(x, y) ==
    LET gy == Pow2Part(y, One)
    IN  RoundRat(Sgn(y) * x * (One \div gy), Abs(y) \div gy)

\* int64_t converted to double
I2F(i) == RoundRat(i * One, 1)

\* static_cast<int64_t>(double): truncation toward zero
F2I(x) == Sgn(x) * (Abs(x) \div One)

\* std::trunc(double)
FTrunc(x) == F2I(x) * One

\* ------------------------------------------------------------ input values
Tiny     == One \div Pow2(FracBits)             \* the smallest positive double
PredHalf == Half - One \div Pow2(MantBits + 1)  \* the double just below 0.5
PredOne  == One - One \div Pow2(MantBits)       \* the double just below 1.0
Quarter  == One \div 4                          \* 0.25

SecsIn  == {-2, 0, 5}
DblIn   == {-(One + Half), -PredHalf, -Tiny, 0, Tiny, PredHalf, Half,
            PredOne, One + Half + Quarter}
RateIn  == {-2 * One, 0, Half, One, One + Half, 3 * One}
TicksIn == (-MaxTicks) .. MaxTicks
BigRate == Pow2(MantBits + 2) * One             \* a rate of 2^(MantBits + 2)

\* ------------------------------------------------------------- time_spec_t
TimeSpec(full, frac) == [full |-> full, frac |-> frac]

\* fast_llround
fast_llround(x) == F2I(FAdd(x, Half))

\* set_from: the value the object holds afterwards
set_from(full_secs, frac_secs) ==
    LET frac_int == F2I(frac_secs)
        full     == full_secs + frac_int
        frac     == FSub(frac_secs, I2F(frac_int))
    IN  IF frac < 0 THEN TimeSpec(full - 1, FAdd(frac, One))
                    ELSE TimeSpec(full, frac)

\* from_ticks once the integer division ticks / rate_i has given secs_full
from_ticks_with(ticks, tick_rate, rate_i, secs_full) ==
    LET rate_f      == FSub(tick_rate, I2F(rate_i))
        ticks_error == ticks - secs_full * rate_i
        ticks_frac  == FSub(I2F(ticks_error), FMul(I2F(secs_full), rate_f))
    IN  set_from(secs_full, FDiv(ticks_frac, tick_rate))

\* int64_t / int64_t, truncating; the divisor is not zero
IDiv(a, b) == Sgn(a) * Sgn(b) * (Abs(a) \div Abs(b))

\* from_ticks with static_cast<int64_t>(tick_rate) # 0
from_ticks(ticks, tick_rate) ==
    LET rate_i == F2I(tick_rate)
    IN  from_ticks_with(ticks, tick_rate, rate_i, IDiv(ticks, rate_i))

get_tick_count(ts, tick_rate) == fast_llround(FMul(ts.frac, tick_rate))

to_ticks(ts, tick_rate) ==
    LET rate_i      == F2I(tick_rate)
        rate_f      == FSub(tick_rate, I2F(rate_i))
        ticks_full  == ts.full * rate_i
        ticks_error == FMul(I2F(ts.full), rate_f)
        ticks_frac  == FMul(ts.frac, tick_rate)
    IN  ticks_full + fast_llround(FAdd(ticks_error, ticks_frac))

\* the double get_tick_count hands to fast_llround
get_tick_count_arg(ts, tick_rate) == FMul(ts.frac, tick_rate)

\* the double to_ticks hands to fast_llround
to_ticks_arg(ts, tick_rate) ==
    LET rate_i      == F2I(tick_rate)
        rate_f      == FSub(tick_rate, I2F(rate_i))
        ticks_error == FMul(I2F(ts.full), rate_f)
        ticks_frac  == FMul(ts.frac, tick_rate)
    IN  FAdd(ticks_error, ticks_frac)

\* operator+(time_spec_t, time_spec_t) and operator+=(time_spec_t)
operator_plus(l, r) == set_from(l.full + r.full, FAdd(l.frac, r.frac))

operator_plus_eq(this, rhs) ==
    set_from(this.full + rhs.full, FAdd(this.frac, rhs.frac))

\* operator+(time_spec_t, double) and operator+=(double)
operator_plus_d(l, r) ==
    LET full_secs == FTrunc(r)
    IN  set_from(l.full + F2I(full_secs), FAdd(l.frac, FSub(r, full_secs)))

operator_plus_eq_d(this, rhs) ==
    LET full_secs == FTrunc(rhs)
    IN  set_from(this.full + F2I(full_secs),
                 FAdd(this.frac, FSub(rhs, full_secs)))

\* operator-(time_spec_t, time_spec_t) and operator-=(time_spec_t)
operator_minus(l, r) == set_from(l.full - r.full, FSub(l.frac, r.frac))

operator_minus_eq(this, rhs) ==
    set_from(this.full - rhs.full, FSub(this.frac, rhs.frac))

\* operator-(time_spec_t, double) and operator-=(double)
operator_minus_d(l, r) ==
    LET full_secs == FTrunc(r)
    IN  set_from(l.full - F2I(full_secs), FSub(l.frac, FSub(r, full_secs)))

operator_minus_eq_d(this, rhs) ==
    LET full_secs == FTrunc(rhs)
    IN  set_from(this.full - F2I(full_secs),
                 FSub(this.frac, FSub(rhs, full_secs)))

\* the comparison operators
OpEq(l, r) == l.full = r.full /\ l.frac = r.frac
OpNe(l, r) == l.full # r.full \/ l.frac # r.frac
\* operator< with the tie-break also accepting equal fractions
OpLt_ties(l, r) == l.full < r.full \/ (l.full = r.full /\ l.frac <= r.frac)

OpLt(l, r) == l.full < r.full \/ (l.full = r.full /\ l.frac < r.frac)
OpGt(l, r) == l.full > r.full \/ (l.full = r.full /\ l.frac > r.frac)
OpLe(l, r) == l.full < r.full \/ (l.full = r.full /\ l.frac <= r.frac)
OpGe(l, r) == l.full > r.full \/ (l.full = r.full /\ l.frac >= r.frac)

\* the time_spec_t right-hand sides the operations are given
TimeIn == {set_from(0, f) : f \in {-Tiny, 0, Tiny, Half, PredOne}}
              \cup {set_from(2, Half)}

\* ------------------------------------------------------------- operator<<
\* Text is a sequence of one-character strings.
Digits == <<"0", "1", "2", "3", "4", "5", "6", "7", "8", "9">>

DigitChar(d) == Digits[d + 1]

\* std::numeric_limits<double>::digits10 + 1
Precision == 16

\* the decimal digits of a natural number
RECURSIVE NatText(_)
NatText(n) ==
    IF n < 10 THEN <<DigitChar(n)>>
    ELSE Append(NatText(n \div 10), DigitChar(n % 10))

\* os << int64_t
IntText(i) == IF i < 0 THEN <<"-">> \o NatText(-i) ELSE NatText(i)

\* the first cnt decimal digits of rem / One, 0 <= rem < One
RECURSIVE FracDigits(_, _)
FracDigits(rem, cnt) ==
    IF cnt = 0 THEN <<>>
    ELSE <<DigitChar((10 * rem) \div One)>>
             \o FracDigits((10 * rem) % One, cnt - 1)

RECURSIVE Pow10(_)
Pow10(n) == IF n <= 0 THEN 1 ELSE 10 * Pow10(n - 1)

\* how many times x > 0 is multiplied by ten until it reaches One
RECURSIVE ShiftsToOne(_)
ShiftsToOne(x) == IF x >= One THEN 0 ELSE 1 + ShiftsToOne(10 * x)

\* the decimal exponent of the double x, 0 < x < 10 * One
DecExp(x) == -ShiftsToOne(x)

\* os << std::setprecision(Precision) << std::showpoint << x for a double
\* 0 <= x < 10.0, in the default floating-point notation (printf's %#.16g):
\* fixed notation with Precision significant digits when the decimal exponent
\* is at least -4, scientific notation otherwise. A double of this model has
\* at most FracBits < Precision decimal places, so the digits are exact.
DoubleText(x) ==
    LET X == IF x = 0 THEN 0 ELSE DecExp(x)
    IN  IF X >= -4
        THEN NatText(x \div One) \o <<".">>
                 \o FracDigits(x % One, Precision - 1 - X)
        ELSE LET sig  == x * Pow10(-X)
                 lead == sig \div One
             IN  <<DigitChar(lead), ".">>
                     \o FracDigits(sig % One, Precision - 1)
                     \o <<"e", "-", "0", DigitChar(-X)>>

\* std::string::substr(1)
Substr1(str) == SubSeq(str, 2, Len(str))

\* operator<<(std::ostream&, const time_spec_t&): the characters written
StreamText(ts) == IntText(ts.full) \o Substr1(DoubleText(ts.frac))

\* ------------------------------------------------- operator std::string
HexDigits == <<"0", "1", "2", "3", "4", "5", "6", "7", "8", "9",
               "a", "b", "c", "d", "e", "f">>

\* the hexadecimal digits of a natural number
RECURSIVE HexText(_)
HexText(n) ==
    IF n < 16 THEN <<HexDigits[n + 1]>>
    ELSE Append(HexText(n \div 16), HexDigits[(n % 16) + 1])

\* os << (const void*)
PointerText(addr) == <<"0", "x">> \o HexText(addr)

\* operator std::string(): the stream is given `this`, a const time_spec_t*,
\* so the characters are those of the address the object lives at
operator_string(ts, addr) == PointerText(addr)

\* the addresses an object is placed at
AddrIn == {Pow2(12), Pow2(16) - Pow2(5)}

\* ------------------------------------------------------------------- state
VARIABLES
    t,      \* the time_spec_t object the operations act on
    op,     \* the operation performed last
    in,     \* its arguments (and the object's value when it was called)
    out,    \* what it returned
    nops,   \* how many times the object has been modified since construction
    _map    \* the private container of the dict the dict operations act on

vars == <<t, op, in, out, nops, _map>>

\* The operations that leave the object as it is and return a value. A run
\* constructs one object, modifies it up to MaxOps times and reads it once; the
\* time_spec_t a binary operator returns can be assigned to the object.
ReadOps == {"get_tick_count", "to_ticks", "+", "+d", "-", "-d", "compare", "<<",
            "std::string", "from_ticks.to_ticks", "(+)-"}

Live == op \notin ReadOps

\* the object is the default-constructed one and nothing has been done yet
Fresh == op = "time_spec_t()"

NoOut        == [kind |-> "none"]
TimeOut(v)   == [kind |-> "time", val |-> v]
TicksOut(v)  == [kind |-> "ticks", val |-> v]

\* time_spec_t()
Init ==
    /\ t = TimeSpec(0, 0)
    /\ op = "time_spec_t()"
    /\ in = [this |-> TimeSpec(0, 0)]
    /\ out = NoOut
    /\ nops = 0
    /\ _map = <<>>

\* t = time_spec_t(full_secs)
CtorSecs ==
    \E s \in SecsIn :
        /\ Fresh
        /\ t' = TimeSpec(s, 0)
        /\ op' = "time_spec_t(full_secs)"
        /\ in' = [s |-> s]
        /\ out' = TimeOut(t')
        /\ nops' = 0
        /\ UNCHANGED _map

\* t = time_spec_t(full_secs, frac_secs)
CtorSecsFrac ==
    \E s \in SecsIn, f \in DblIn :
        /\ Fresh
        /\ t' = set_from(s, f)
        /\ op' = "time_spec_t(full_secs, frac_secs)"
        /\ in' = [s |-> s, f |-> f]
        /\ out' = TimeOut(t')
        /\ nops' = 0
        /\ UNCHANGED _map

\* t = time_spec_t(secs)
CtorReal ==
    \E f \in DblIn :
        /\ Fresh
        /\ t' = set_from(0, f)
        /\ op' = "time_spec_t(secs)"
        /\ in' = [s |-> 0, f |-> f]
        /\ out' = TimeOut(t')
        /\ nops' = 0
        /\ UNCHANGED _map

\* t = time_spec_t(full_secs, tick_count, tick_rate). With tick_rate = 0 the
\* quotient tick_count / tick_rate is an infinity or a NaN, and so is the
\* fraction of the object whatever its out-of-range conversion to int64_t
\* gives: no time value comes out of it, and t is left as it was.
CtorTicks ==
    \E s \in {-2, 5}, k \in {-3, 1}, r \in RateIn :
        /\ Fresh
        /\ op' = "time_spec_t(full_secs, tick_count, tick_rate)"
        /\ in' = [s |-> s, k |-> k, r |-> r]
        /\ \/ /\ r # 0
              /\ t' = set_from(s, FDiv(I2F(k), r))
              /\ out' = TimeOut(t')
           \/ /\ r = 0
              /\ t' = t
              /\ out' = [kind |-> "nonfinite"]
        /\ nops' = 0
        /\ UNCHANGED _map

\* t = time_spec_t::from_ticks(ticks, tick_rate). When static_cast<int64_t>
\* (tick_rate) is 0, ticks / rate_i is an integer division by zero: the
\* program traps, or the division yields 0 and the function goes on (to a
\* floating-point division by zero when tick_rate is 0.0).
FromTicks ==
    \E k \in TicksIn, r \in RateIn \cup {BigRate} :
        /\ Fresh
        /\ op' = "from_ticks"
        /\ in' = [k |-> k, r |-> r]
        /\ \/ /\ F2I(r) # 0
              /\ t' = from_ticks(k, r)
              /\ out' = TimeOut(t')
           \/ /\ F2I(r) = 0
              /\ t' = t
              /\ out' = [kind |-> "trap"]
           \/ /\ F2I(r) = 0
              /\ r # 0
              /\ t' = from_ticks_with(k, r, 0, 0)
              /\ out' = TimeOut(t')
           \/ /\ r = 0
              /\ t' = t
              /\ out' = [kind |-> "nonfinite"]
        /\ nops' = 0
        /\ UNCHANGED _map

\* t.set_from(full_secs, frac_secs)
SetFrom ==
    \E s \in {0, 5}, f \in {-Tiny, -PredHalf, One + Half + Quarter} :
        /\ Live /\ nops < MaxOps
        /\ t' = set_from(s, f)
        /\ op' = "set_from"
        /\ in' = [this |-> t, s |-> s, f |-> f]
        /\ out' = NoOut
        /\ nops' = nops + 1
        /\ UNCHANGED _map

\* t.get_tick_count(tick_rate)
GetTickCount ==
    \E r \in RateIn :
        /\ Live
        /\ op' = "get_tick_count"
        /\ in' = [this |-> t, r |-> r]
        /\ out' = TicksOut(get_tick_count(t, r))
        /\ UNCHANGED <<t, nops, _map>>

\* t.to_ticks(tick_rate)
ToTicks ==
    \E r \in RateIn :
        /\ Live
        /\ op' = "to_ticks"
        /\ in' = [this |-> t, r |-> r]
        /\ out' = TicksOut(to_ticks(t, r))
        /\ UNCHANGED <<t, nops, _map>>

\* t + r, r a time_spec_t
PlusTS ==
    \E r \in TimeIn :
        /\ Live
        /\ op' = "+"
        /\ in' = [this |-> t, r |-> r]
        /\ out' = TimeOut(operator_plus(t, r))
        /\ UNCHANGED <<t, nops, _map>>

\* t += r, r a time_spec_t
PlusEqTS ==
    \E r \in TimeIn :
        /\ Live /\ nops < MaxOps
        /\ t' = operator_plus_eq(t, r)
        /\ op' = "+="
        /\ in' = [this |-> t, r |-> r]
        /\ out' = TimeOut(t')
        /\ nops' = nops + 1
        /\ UNCHANGED _map

\* t + r, r a double
PlusD ==
    \E r \in DblIn :
        /\ Live
        /\ op' = "+d"
        /\ in' = [this |-> t, r |-> r]
        /\ out' = TimeOut(operator_plus_d(t, r))
        /\ UNCHANGED <<t, nops, _map>>

\* t += r, r a double
PlusEqD ==
    \E r \in DblIn :
        /\ Live /\ nops < MaxOps
        /\ t' = operator_plus_eq_d(t, r)
        /\ op' = "+=d"
        /\ in' = [this |-> t, r |-> r]
        /\ out' = TimeOut(t')
        /\ nops' = nops + 1
        /\ UNCHANGED _map

\* t - r, r a time_spec_t
MinusTS ==
    \E r \in TimeIn :
        /\ Live
        /\ op' = "-"
        /\ in' = [this |-> t, r |-> r]
        /\ out' = TimeOut(operator_minus(t, r))
        /\ UNCHANGED <<t, nops, _map>>

\* t -= r, r a time_spec_t
MinusEqTS ==
    \E r \in TimeIn :
        /\ Live /\ nops < MaxOps
        /\ t' = operator_minus_eq(t, r)
        /\ op' = "-="
        /\ in' = [this |-> t, r |-> r]
        /\ out' = TimeOut(t')
        /\ nops' = nops + 1
        /\ UNCHANGED _map

\* t - r, r a double
MinusD ==
    \E r \in DblIn :
        /\ Live
        /\ op' = "-d"
        /\ in' = [this |-> t, r |-> r]
        /\ out' = TimeOut(operator_minus_d(t, r))
        /\ UNCHANGED <<t, nops, _map>>

\* t -= r, r a double
MinusEqD ==
    \E r \in DblIn :
        /\ Live /\ nops < MaxOps
        /\ t' = operator_minus_eq_d(t, r)
        /\ op' = "-=d"
        /\ in' = [this |-> t, r |-> r]
        /\ out' = TimeOut(t')
        /\ nops' = nops + 1
        /\ UNCHANGED _map

\* (t + r) - r, r a time_spec_t
PlusThenMinus ==
    \E r \in TimeIn :
        /\ Live
        /\ op' = "(+)-"
        /\ in' = [this |-> t, r |-> r]
        /\ out' = TimeOut(operator_minus(operator_plus(t, r), r))
        /\ UNCHANGED <<t, nops, _map>>

\* time_spec_t::from_ticks(ticks, tick_rate).to_ticks(tick_rate), for the
\* rates from_ticks does not divide by zero with
TicksRoundTrip ==
    \E k \in TicksIn, r \in RateIn :
        /\ Fresh
        /\ F2I(r) # 0
        /\ op' = "from_ticks.to_ticks"
        /\ in' = [k |-> k, r |-> r]
        /\ out' = TicksOut(to_ticks(from_ticks(k, r), r))
        /\ UNCHANGED <<t, nops, _map>>

\* the six comparisons of t with r
Compare ==
    \E r \in TimeIn :
        /\ Live
        /\ op' = "compare"
        /\ in' = [this |-> t, r |-> r]
        /\ out' = [kind |-> "cmp",
                   eq |-> OpEq(t, r), ne |-> OpNe(t, r),
                   lt |-> OpLt(t, r), gt |-> OpGt(t, r),
                   le |-> OpLe(t, r), ge |-> OpGe(t, r)]
        /\ UNCHANGED <<t, nops, _map>>

\* os << t
Stream ==
    /\ Live
    /\ op' = "<<"
    /\ in' = [this |-> t]
    /\ out' = [kind |-> "text", text |-> StreamText(t)]
    /\ UNCHANGED <<t, nops, _map>>

\* std::string(t), t an object at any address
Stringify ==
    \E addr \in AddrIn :
        /\ Live
        /\ op' = "std::string"
        /\ in' = [this |-> t, addr |-> addr]
        /\ out' = [kind |-> "text", text |-> operator_string(t, addr)]
        /\ UNCHANGED <<t, nops, _map>>

\* t = (the time_spec_t returned last): the implicit copy assignment
Assign ==
    /\ nops < MaxOps
    /\ op \in {"+", "+d", "-", "-d"}
    /\ t' = out.val
    /\ op' = "="
    /\ in' = [this |-> t, r |-> out.val]
    /\ out' = TimeOut(out.val)
    /\ nops' = nops + 1
    /\ UNCHANGED _map

Next ==
    \/ CtorSecs
    \/ CtorSecsFrac
    \/ CtorReal
    \/ CtorTicks
    \/ FromTicks
    \/ SetFrom
    \/ GetTickCount
    \/ ToTicks
    \/ PlusTS
    \/ PlusEqTS
    \/ PlusD
    \/ PlusEqD
    \/ MinusTS
    \/ MinusEqTS
    \/ MinusD
    \/ MinusEqD
    \/ PlusThenMinus
    \/ TicksRoundTrip
    \/ Compare
    \/ Stream
    \/ Stringify
    \/ Assign

Spec == Init /\ [][Next]_vars

\* ==================================================================== dict
\* A dict<Key, Val> is its private container _map, a std::list of
\* std::pair<Key, Val>: a sequence of records [first, second].
KeyIn == {"a", "b", "c"}
ValIn == {0, 1}

\* Val(), the value-initialized Val
Val_default == 0

\* std::make_pair
make_pair(key, val) == [first |-> key, second |-> val]

\* dict(first, last): the container is the range, as given
dict_range(range) == range

\* insert(first, last): the range goes to the end of the container, as given
insert(this, range) == this \o range

clear(this) == <<>>

size(this) == Len(this)

keys(this) == [i \in 1 .. Len(this) |-> this[i].first]

vals(this) == [i \in 1 .. Len(this) |-> this[i].second]

has_key(this, key) == \E i \in 1 .. Len(this) : this[i].first = key

\* where the loop `for (p : _map) if (p.first == key)` stops: the first entry
\* with the key (has_key(this, key) holds)
Find(this, key) ==
    CHOOSE i \in 1 .. Len(this) :
        /\ this[i].first = key
        /\ \A j \in 1 .. (i - 1) : this[j].first # key

\* get(key) and the const operator[] of a key that is found
get(this, key) == this[Find(this, key)].second

operator_index_const(this, key) == this[Find(this, key)].second

\* operator[] with the missing key put in front of the entries
operator_index_front(this, key) ==
    IF has_key(this, key) THEN this
    ELSE <<make_pair(key, Val_default)>> \o this

\* the non-const operator[]: the container afterwards
operator_index(this, key) ==
    IF has_key(this, key) THEN this
    ELSE Append(this, make_pair(key, Val_default))

\* the entry the reference returned by the non-const operator[] refers to
operator_index_ref(this, key) ==
    IF has_key(this, key) THEN Find(this, key)
    ELSE Len(operator_index(this, key))

\* set: (*this)[key] = val
set(this, key, val) ==
    [operator_index(this, key) EXCEPT ![operator_index_ref(this, key)].second = val]

\* operator==
operator_eq(this, other) ==
    IF size(this) # size(other) THEN FALSE
    ELSE \A i \in 1 .. Len(this) :
             /\ has_key(other, this[i].first)
             /\ get(other, this[i].first) = this[i].second

operator_ne(this, other) == ~operator_eq(this, other)

\* pop of a key that is found: the container afterwards, and the value
pop(this, key) ==
    LET it == Find(this, key)
    IN  [map |-> SubSeq(this, 1, it - 1) \o SubSeq(this, it + 1, Len(this)),
         val |-> this[it].second]

\* the loop of update over the keys ks of new_dict still to visit: the
\* container when the loop ends, and whether it ended by the throw
RECURSIVE update_loop(_, _, _, _)
update_loop(this, new_dict, ks, fail_on_conflict) ==
    IF ks = <<>> THEN [map |-> this, threw |-> FALSE]
    ELSE LET key == Head(ks)
         IN  IF /\ fail_on_conflict
                /\ has_key(this, key)
                /\ get(this, key) # operator_index_const(new_dict, key)
             THEN [map |-> this, threw |-> TRUE]
             ELSE update_loop(set(this, key, operator_index_const(new_dict, key)),
                              new_dict, Tail(ks), fail_on_conflict)

\* update that never looks for a conflict
update_unchecked(this, new_dict, fail_on_conflict) ==
    update_loop(this, new_dict, keys(new_dict), FALSE)

update(this, new_dict, fail_on_conflict) ==
    update_loop(this, new_dict, keys(new_dict), fail_on_conflict)

\* the dicts given as new_dict and as the other side of ==
DictIn == {<<>>,
           <<make_pair("a", 1)>>,
           <<make_pair("b", 0), make_pair("a", 1)>>,
           <<make_pair("a", 1), make_pair("b", 0)>>,
           <<make_pair("c", 1), make_pair("a", 0)>>,
           <<make_pair("a", 1), make_pair("a", 0)>>,
           <<make_pair("b", 1), make_pair("c", 0), make_pair("a", 1)>>}

\* the ranges given to the range constructor and to insert
RangeIn == {<<make_pair("a", 0)>>,
            <<make_pair("a", 1), make_pair("a", 1)>>,
            <<make_pair("b", 1), make_pair("a", 0)>>,
            <<make_pair("a", 1), make_pair("b", 0), make_pair("a", 0)>>}

\* The operations that leave the dict as it is. A run constructs one dict,
\* modifies it any number of times and reads it once.
DictReadOps == {"keys", "size", "has_key", "get", "=="}

DictLive == op \notin DictReadOps

DictFresh == op = "dict()"

\* dict()
InitDict ==
    /\ _map = <<>>
    /\ op = "dict()"
    /\ in = [this |-> <<>>]
    /\ out = NoOut
    /\ nops = 0
    /\ t = TimeSpec(0, 0)

\* _map = dict(first, last)
RangeCtor ==
    \E range \in RangeIn :
        /\ DictFresh
        /\ Len(range) <= MaxLen
        /\ _map' = dict_range(range)
        /\ op' = "dict(first, last)"
        /\ in' = [range |-> range]
        /\ out' = NoOut
        /\ UNCHANGED <<t, nops>>

\* _map.insert(first, last)
Insert ==
    \E range \in RangeIn :
        /\ DictLive
        /\ Len(_map) + Len(range) <= MaxLen
        /\ _map' = insert(_map, range)
        /\ op' = "insert"
        /\ in' = [this |-> _map, range |-> range]
        /\ out' = NoOut
        /\ UNCHANGED <<t, nops>>

\* _map.clear()
Clear ==
    /\ DictLive
    /\ _map' = clear(_map)
    /\ op' = "clear"
    /\ in' = [this |-> _map]
    /\ out' = NoOut
    /\ UNCHANGED <<t, nops>>

\* _map.set(key, val)
Set ==
    \E key \in KeyIn, val \in ValIn :
        /\ DictLive
        /\ Len(set(_map, key, val)) <= MaxLen
        /\ _map' = set(_map, key, val)
        /\ op' = "set"
        /\ in' = [this |-> _map, key |-> key, val |-> val]
        /\ out' = NoOut
        /\ UNCHANGED <<t, nops>>

\* _map[key], the non-const operator[], the reference only read
Index ==
    \E key \in KeyIn :
        /\ DictLive
        /\ Len(operator_index(_map, key)) <= MaxLen
        /\ _map' = operator_index(_map, key)
        /\ op' = "[]"
        /\ in' = [this |-> _map, key |-> key]
        /\ out' = [kind |-> "val",
                   val |-> _map'[operator_index_ref(_map, key)].second]
        /\ UNCHANGED <<t, nops>>

\* _map.pop(key): key_not_found is thrown when no entry has the key
Pop ==
    \E key \in KeyIn :
        /\ DictLive
        /\ op' = "pop"
        /\ in' = [this |-> _map, key |-> key]
        /\ \/ /\ has_key(_map, key)
              /\ _map' = pop(_map, key).map
              /\ out' = [kind |-> "val", val |-> pop(_map, key).val]
           \/ /\ ~has_key(_map, key)
              /\ _map' = _map
              /\ out' = [kind |-> "key_error"]
        /\ UNCHANGED <<t, nops>>

\* _map.update(new_dict, fail_on_conflict): uhd::value_error is thrown from
\* inside the loop, the entries set before it stay set
Update ==
    \E new_dict \in DictIn, fail_on_conflict \in BOOLEAN :
        /\ DictLive
        /\ Len(update(_map, new_dict, fail_on_conflict).map) <= MaxLen
        /\ _map' = update(_map, new_dict, fail_on_conflict).map
        /\ op' = "update"
        /\ in' = [this |-> _map, new_dict |-> new_dict,
                  fail_on_conflict |-> fail_on_conflict]
        /\ out' = IF update(_map, new_dict, fail_on_conflict).threw
                  THEN [kind |-> "value_error"]
                  ELSE NoOut
        /\ UNCHANGED <<t, nops>>

\* _map.keys() and _map.vals()
KeysVals ==
    /\ DictLive
    /\ op' = "keys"
    /\ in' = [this |-> _map]
    /\ out' = [kind |-> "lists", keys |-> keys(_map), vals |-> vals(_map)]
    /\ UNCHANGED <<t, nops, _map>>

\* _map.size()
Size ==
    /\ DictLive
    /\ op' = "size"
    /\ in' = [this |-> _map]
    /\ out' = [kind |-> "size", val |-> size(_map)]
    /\ UNCHANGED <<t, nops, _map>>

\* _map.has_key(key)
HasKey ==
    \E key \in KeyIn :
        /\ DictLive
        /\ op' = "has_key"
        /\ in' = [this |-> _map, key |-> key]
        /\ out' = [kind |-> "bool", val |-> has_key(_map, key)]
        /\ UNCHANGED <<t, nops, _map>>

\* _map.get(key): key_not_found is thrown when no entry has the key
Get ==
    \E key \in KeyIn :
        /\ DictLive
        /\ op' = "get"
        /\ in' = [this |-> _map, key |-> key]
        /\ out' = IF has_key(_map, key)
                  THEN [kind |-> "val", val |-> get(_map, key)]
                  ELSE [kind |-> "key_error"]
        /\ UNCHANGED <<t, nops, _map>>

\* _map == other, other == _map and _map != other
Equals ==
    \E other \in DictIn :
        /\ DictLive
        /\ op' = "=="
        /\ in' = [this |-> _map, other |-> other]
        /\ out' = [kind |-> "eq",
                   eq |-> operator_eq(_map, other),
                   qe |-> operator_eq(other, _map),
                   ne |-> operator_ne(_map, other)]
        /\ UNCHANGED <<t, nops, _map>>

\* a dict built from dict() by set, operator[], update, pop and clear
NextDict ==
    \/ Clear
    \/ Set
    \/ Index
    \/ Pop
    \/ Update
    \/ KeysVals
    \/ Size
    \/ HasKey
    \/ Get
    \/ Equals

SpecDict == InitDict /\ [][NextDict]_vars

\* a dict built by every public mutating operation
NextDictRange ==
    \/ RangeCtor
    \/ Insert
    \/ Clear
    \/ Set
    \/ Index
    \/ Pop
    \/ Update
    \/ KeysVals
    \/ Size
    \/ HasKey
    \/ Get
    \/ Equals

SpecDictRange == InitDict /\ [][NextDictRange]_vars

\* ------------------------------------------------------------- the claims
\* the fractional component lies in [0, 1)
Normalized(ts) == 0 <= ts.frac /\ ts.frac < One

\* whole + fractional seconds as an exact number of quanta
Value(ts) == ts.full * One + ts.frac

\* the nearest integer to the double x, ties toward positive infinity
RoundHalfUp(x) == (x + Half) \div One

\* the smallest integer not below the double x
Ceil(x) == -((-x) \div One)

\* C1: time_spec_t(s, f) and set_from(s, f) leave a fractional component in
\* [0, 1) and a whole + fractional sum equal to s + f exactly.
C1_NormalizedExactSum ==
    op \in {"time_spec_t(full_secs, frac_secs)", "set_from"} =>
        /\ Normalized(t)
        /\ Value(t) = in.s * One + in.f

\* C2: every value an addition or subtraction operator produces has its
\* fractional component in [0, 1).
C2_OperatorsNormalized ==
    op \in {"+", "+=", "+d", "+=d", "-", "-=", "-d", "-=d"} =>
        Normalized(out.val)

\* C3: from_ticks(k, r).to_ticks(r) = k for every tick count k and every
\* rate r > 0. Stated for the rates r >= 1, whose integer part is not zero,
\* so that from_ticks divides by a non-zero integer.
C3_RoundTrip ==
    (op = "from_ticks.to_ticks" /\ in.r >= One) => out.val = in.k

\* C4: a tick-domain conversion given a zero or negative tick rate fails with
\* an invalid-argument error and returns neither a time value nor a tick
\* count.
C4_InvalidRateRejected ==
    (/\ op \in {"from_ticks", "to_ticks",
                 "time_spec_t(full_secs, tick_count, tick_rate)"}
     /\ in.r <= 0)
        => out.kind = "invalid_argument"

\* C5: exactly one of a < b, a == b, a > b holds; <= is (< or ==), >= is
\* (> or ==), != is the negation of ==; the order is by whole seconds first
\* and by fractional seconds among equal whole seconds, and == needs both
\* components equal.
C5_TotalOrder ==
    op = "compare" =>
        LET a == in.this
            b == in.r
            \* a fraction is at most One, so this key orders pairs by whole
            \* seconds first and by fraction second
            key(x) == x.full * (2 * One) + x.frac
        IN  /\ (IF out.lt THEN 1 ELSE 0) + (IF out.eq THEN 1 ELSE 0)
                   + (IF out.gt THEN 1 ELSE 0) = 1
            /\ out.le <=> (out.lt \/ out.eq)
            /\ out.ge <=> (out.gt \/ out.eq)
            /\ out.ne <=> ~out.eq
            /\ out.lt <=> key(a) < key(b)
            /\ out.gt <=> key(a) > key(b)
            /\ out.eq <=> a = b

\* C5 witness: a comparison decided by the fractional seconds alone
C5_Witness ==
    /\ op = "compare"
    /\ in.this.full = in.r.full
    /\ in.this.frac < in.r.frac
    /\ out.lt /\ out.le /\ out.ne /\ ~out.eq /\ ~out.gt /\ ~out.ge

\* the tolerance of the fractional arithmetic: the spacing of the doubles
\* next to 1.0 (2^-52 in binary64)
Tolerance == One \div Pow2(MantBits - 1)

\* C6: t + time_spec_t(0, 0) == t, and (a + b) - b has the whole seconds of
\* a and the fractional seconds of a up to the tolerance.
C6_IdentityAndInverse ==
    /\ (op = "+" /\ in.r = TimeSpec(0, 0)) => OpEq(out.val, in.this)
    /\ op = "(+)-" =>
           LET a == in.this
               c == out.val
           IN  /\ c.full = a.full
               /\ Abs(c.frac - a.frac) <= Tolerance

\* C7: for normalized a and b, a + b is normalized, its whole + fractional
\* sum is that of a plus that of b, and it carries 1 into the whole seconds
\* exactly when a.frac + b.frac >= 1; a - b is normalized, equals the
\* difference and borrows 1 exactly when a.frac < b.frac.
C7_SumAndDifference ==
    LET a == in.this
        b == in.r
        c == out.val
    IN  /\ (op \in {"+", "+="} /\ Normalized(a) /\ Normalized(b)) =>
               /\ Normalized(c)
               /\ Value(c) = Value(a) + Value(b)
               /\ c.full = a.full + b.full
                              + (IF a.frac + b.frac >= One THEN 1 ELSE 0)
        /\ (op \in {"-", "-="} /\ Normalized(a) /\ Normalized(b)) =>
               /\ Normalized(c)
               /\ Value(c) = Value(a) - Value(b)
               /\ c.full = a.full - b.full
                              - (IF a.frac < b.frac THEN 1 ELSE 0)

\* C8: for a normalized t and a rate r > 0, t.to_ticks(r) is
\* whole * rate_i + round(whole * rate_f + frac * r), rounding half up; the
\* sum under the rounding is taken as the double the program computes.
C8_ToTicksRoundsHalfUp ==
    (op = "to_ticks" /\ Normalized(in.this) /\ in.r > 0) =>
        LET rate_i == F2I(in.r)
            rate_f == FSub(in.r, I2F(rate_i))
            x      == FAdd(FMul(I2F(in.this.full), rate_f),
                           FMul(in.this.frac, in.r))
        IN  out.val = in.this.full * rate_i + RoundHalfUp(x)

\* C9: for a normalized t and a rate r > 0, t.get_tick_count(r) is
\* round(frac * r), rounding half up, whatever the whole seconds are, and
\* lies in 0..ceil(r).
C9_TickCountRoundsHalfUp ==
    (op = "get_tick_count" /\ Normalized(in.this) /\ in.r > 0) =>
        /\ out.val = RoundHalfUp(FMul(in.this.frac, in.r))
        /\ out.val = get_tick_count(TimeSpec(0, in.this.frac), in.r)
        /\ out.val \in 0 .. Ceil(in.r)

\* C10: a normalized time_spec_t is written as its whole seconds in decimal,
\* a '.', and digits only (no exponent); whole=5, frac=0.25 begins "5.25"
\* and whole=-1, frac=0.5 begins "-1.5".
C10_RendersPlainDecimal ==
    (op = "<<" /\ Normalized(in.this)) =>
        LET txt == out.text
            w   == IntText(in.this.full)
            n   == Len(w)
        IN  /\ Len(txt) > n + 1
            /\ SubSeq(txt, 1, n) = w
            /\ txt[n + 1] = "."
            /\ \A i \in (n + 2) .. Len(txt) :
                   \E d \in 0 .. 9 : txt[i] = DigitChar(d)
            /\ in.this = TimeSpec(5, Quarter) =>
                   SubSeq(txt, 1, 4) = <<"5", ".", "2", "5">>
            /\ in.this = TimeSpec(-1, Half) =>
                   SubSeq(txt, 1, 4) = <<"-", "1", ".", "5">>

\* C11: std::string(t) is the text operator<< writes for t, so that two equal
\* values, wherever the objects live, convert to the same string.
C11_StringIsStreamText ==
    op = "std::string" =>
        /\ out.text = StreamText(in.this)
        /\ \A addr \in AddrIn : out.text = operator_string(in.this, addr)

\* a sequence without its i-th element
RemoveAt(seq, i) == SubSeq(seq, 1, i - 1) \o SubSeq(seq, i + 1, Len(seq))

\* C12: update(new_dict, fail_on_conflict) throws uhd::value_error exactly
\* when fail_on_conflict is true and some key is in both dicts with differing
\* values; when it does not throw, every key of new_dict maps to new_dict's
\* value afterwards, every other key keeps its value, and no other key is
\* added or removed. The value of a key is the one get returns.
C12_UpdateContract ==
    op = "update" =>
        LET d        == in.this
            n        == in.new_dict
            conflict == \E key \in KeyIn : /\ has_key(d, key)
                                           /\ has_key(n, key)
                                           /\ get(d, key) # get(n, key)
        IN  /\ (out.kind = "value_error") <=> (in.fail_on_conflict /\ conflict)
            /\ out.kind # "value_error" =>
                   \A key \in KeyIn :
                       IF has_key(n, key)
                       THEN has_key(_map, key) /\ get(_map, key) = get(n, key)
                       ELSE /\ has_key(_map, key) <=> has_key(d, key)
                            /\ has_key(d, key) => get(_map, key) = get(d, key)

\* an update that overwrote an entry and added another
C12_Witness ==
    /\ op = "update"
    /\ out.kind = "none"
    /\ \E key \in KeyIn : has_key(in.this, key) /\ has_key(in.new_dict, key)
                              /\ get(in.this, key) # get(in.new_dict, key)
    /\ Len(_map) > Len(in.this)

\* C13: in a dict built from dict() by set, operator[], update, pop and
\* clear, keys() and vals() list the entries in order of first insertion:
\* vals()[i] is the value get returns for keys()[i]; set and operator[] of an
\* existing key leave every position as it is, of a new key append it; pop
\* removes one entry and leaves the others in their order; update keeps the
\* entries in place and appends the new keys in new_dict's order.
C13_InsertionOrder ==
    LET ks  == keys(_map)
        vs  == vals(_map)
        ks0 == keys(in.this)
        vs0 == vals(in.this)
        n0  == Len(in.this)
    IN  /\ Len(ks) = Len(vs)
        /\ \A i \in 1 .. Len(ks) : get(_map, ks[i]) = vs[i]
        /\ op = "keys" => out.keys = ks /\ out.vals = vs
        /\ op = "set" =>
               IF has_key(in.this, in.key)
               THEN /\ ks = ks0
                    /\ \A i \in 1 .. n0 :
                           vs[i] = IF ks0[i] = in.key THEN in.val ELSE vs0[i]
               ELSE /\ ks = Append(ks0, in.key)
                    /\ vs = Append(vs0, in.val)
        /\ op = "[]" =>
               IF has_key(in.this, in.key)
               THEN ks = ks0 /\ vs = vs0
               ELSE /\ ks = Append(ks0, in.key)
                    /\ vs = Append(vs0, Val_default)
        /\ (op = "pop" /\ out.kind = "val") =>
               \E i \in 1 .. n0 : /\ ks0[i] = in.key
                                  /\ out.val = vs0[i]
                                  /\ ks = RemoveAt(ks0, i)
                                  /\ vs = RemoveAt(vs0, i)
        /\ (op = "pop" /\ out.kind = "key_error") => ks = ks0 /\ vs = vs0
        /\ op = "clear" => ks = <<>> /\ vs = <<>>
        /\ op = "update" =>
               /\ Len(ks) >= n0
               /\ SubSeq(ks, 1, n0) = ks0
               /\ \A i \in (n0 + 1) .. Len(ks) :
                      /\ ~has_key(in.this, ks[i])
                      /\ has_key(in.new_dict, ks[i])
                      /\ \A j \in (i + 1) .. Len(ks) :
                             Find(in.new_dict, ks[i]) < Find(in.new_dict, ks[j])

\* the middle one of three entries popped
C13_Witness ==
    /\ op = "pop"
    /\ out.kind = "val"
    /\ Len(in.this) = 3
    /\ in.key = in.this[2].first
    /\ keys(_map) = <<in.this[1].first, in.this[3].first>>

\* C14: for a tick count k and a rate r >= 1, from_ticks(k, r) is normalized
\* and its whole + fractional sum is k / r exactly: sum * r = k, the common
\* power of two of r and 1.0 cancelled.
C14_FromTicksExact ==
    (op = "from_ticks" /\ in.r >= One /\ out.kind = "time") =>
        LET g == Pow2Part(in.r, One)
        IN  /\ Normalized(out.val)
            /\ Value(out.val) * (in.r \div g) = in.k * One * (One \div g)

\* C15: for a normalized t and a rate r > 0, the double get_tick_count and
\* to_ticks hand to fast_llround is >= 0, and the result is that double
\* rounded half up.
C15_RoundingArgNonNegative ==
    /\ (op = "get_tick_count" /\ Normalized(in.this) /\ in.r > 0) =>
           /\ get_tick_count_arg(in.this, in.r) >= 0
           /\ fast_llround(get_tick_count_arg(in.this, in.r))
                  = RoundHalfUp(get_tick_count_arg(in.this, in.r))
    /\ (op = "to_ticks" /\ Normalized(in.this) /\ in.r > 0) =>
           /\ to_ticks_arg(in.this, in.r) >= 0
           /\ fast_llround(to_ticks_arg(in.this, in.r))
                  = RoundHalfUp(to_ticks_arg(in.this, in.r))

\* C16: for a normalized l and a double r, l + r is l + time_spec_t(r) and
\* l - r is l - time_spec_t(r), and l += r, l -= r leave l equal to l + r,
\* l - r.
C16_RealRhsAgrees ==
    /\ (op \in {"+d", "+=d"} /\ Normalized(in.this)) =>
           /\ out.val = operator_plus(in.this, set_from(0, in.r))
           /\ out.val = operator_plus_d(in.this, in.r)
    /\ (op \in {"-d", "-=d"} /\ Normalized(in.this)) =>
           /\ out.val = operator_minus(in.this, set_from(0, in.r))
           /\ out.val = operator_minus_d(in.this, in.r)

\* C17: no key occurs in more than one entry of a dict, whichever public
\* mutating operations built it: size() is the number of distinct keys,
\* after pop(key) has_key(key) is false, and a == b exactly when b == a.
C17_KeysUnique ==
    /\ \A i, j \in 1 .. Len(_map) : _map[i].first = _map[j].first => i = j
    /\ size(_map) = Cardinality({_map[i].first : i \in 1 .. Len(_map)})
    /\ (op = "pop" /\ out.kind = "val") => ~has_key(_map, in.key)
    /\ op = "==" => out.eq = out.qe

=============================================================================
